---- MODULE Spec2Model ----
(***************************************************************************)
(* The builtin macro catalog of rpmspec-rs (src/src/macros.rs) as a state  *)
(* machine.  Text is a sequence of characters.  A character is written as  *)
(* the one-character string where TLA+ can spell it (printable ASCII and   *)
(* the escapes \t \n \f \r), and otherwise as the bytes of its UTF-8       *)
(* encoding in hexadecimal, two digits a byte: "0B" is U+000B, "C3A9" is   *)
(* U+00E9, "E282AC" is U+20AC.  Offsets are 0-based as in the source.      *)
(* The interpreter state p is the macro registry: a function from macro    *)
(* names to stacks of definitions, most recent last.                       *)
(***************************************************************************)
EXTENDS Integers, Sequences, FiniteSets, TLC

VARIABLES p, o, r, res, stdout, log, call, latest

vars == <<p, o, r, res, stdout, log, call, latest>>

----------------------------------------------------------------------------
(* Bounds of the model.                                                    *)

\* user definitions held by the registry at one time (specification Spec)
MaxDefs == 2
\* length of the argument line given to define (specification SpecDefine)
MaxLine == 5
\* length of the argument text given to shrink / shescape (SpecText)
MaxText == 5
\* names held by a registry that dump is called on (specification SpecDump)
MaxNames == 2

----------------------------------------------------------------------------
(* Text helpers.                                                           *)

None == [some |-> FALSE]

Some(v) == [some |-> TRUE, v |-> v]

\* the characters with the Unicode property White_Space, which is what
\* char::is_whitespace tests: U+0009..U+000D, U+0020, U+0085, U+00A0, U+1680,
\* U+2000..U+200A, U+2028, U+2029, U+202F, U+205F, U+3000
WS ==
    {"\t", "\n", "0B", "\f", "\r", " ", "C285", "C2A0", "E19A80",
     "E28080", "E28081", "E28082", "E28083", "E28084", "E28085", "E28086",
     "E28087", "E28088", "E28089", "E2808A", "E280A8", "E280A9", "E280AF",
     "E2819F", "E38080"}

is_whitespace(ch) == ch \in WS

\* char::len_utf8: the number of bytes of the character's UTF-8 encoding
len_utf8(ch) == IF Len(ch) = 1 THEN 1 ELSE Len(ch) \div 2

\* str::len: the length of t in bytes
RECURSIVE str_len(_)
str_len(t) == IF t = << >> THEN 0 ELSE len_utf8(Head(t)) + str_len(Tail(t))

\* the number of characters of t that end at byte offset b, when b is a
\* character boundary of t (str::is_char_boundary); k characters are behind
RECURSIVE boundary(_, _, _)
boundary(t, b, k) ==
    IF b = 0 THEN Some(k)
    ELSE IF k >= Len(t) \/ len_utf8(t[k + 1]) > b THEN None
    ELSE boundary(t, b - len_utf8(t[k + 1]), k + 1)

\* &t[from..to]: the characters between two byte offsets; indexing aborts
\* when an offset is beyond t, inside a character, or from is behind to
byte_slice(t, from, to) ==
    LET a == boundary(t, from, 0)
        b == boundary(t, to, 0)
    IN  IF from <= to /\ a.some /\ b.some
        THEN Some(SubSeq(t, a.v + 1, b.v))
        ELSE None

\* all texts over alphabet A of length at most n
TextsUpTo(A, n) == UNION {[1..k -> A] : k \in 0..n}

\* str::find / the split point of str::split_once: 1-based index of the first
\* occurrence of ch in t, 0 when there is none
RECURSIVE find_from(_, _, _)
find_from(t, ch, i) ==
    IF i > Len(t) THEN 0
    ELSE IF t[i] = ch THEN i
    ELSE find_from(t, ch, i + 1)

find(t, ch) == find_from(t, ch, 1)

\* str::trim_start
RECURSIVE trim_start(_)
trim_start(t) ==
    IF t # <<>> /\ is_whitespace(Head(t)) THEN trim_start(Tail(t)) ELSE t

\* str::trim_end
RECURSIVE trim_end(_)
trim_end(t) ==
    IF t # <<>> /\ is_whitespace(t[Len(t)])
    THEN trim_end(SubSeq(t, 1, Len(t) - 1))
    ELSE t

\* str::trim
trim(t) == trim_end(trim_start(t))

\* str::split_once(' '): the parts before and after the first space
split_once(t) ==
    LET i == find(t, " ")
    IN  IF i = 0 THEN None
        ELSE Some(<<SubSeq(t, 1, i - 1), SubSeq(t, i + 1, Len(t))>>)

\* str::strip_suffix("()")
strip_suffix(t) ==
    IF Len(t) >= 2 /\ t[Len(t) - 1] = "(" /\ t[Len(t)] = ")"
    THEN Some(SubSeq(t, 1, Len(t) - 2))
    ELSE None

\* str::rsplit_once(ch): the parts before and after the last ch
rsplit_once(t, ch) ==
    LET at == {i \in 1..Len(t) : t[i] = ch}
        i  == CHOOSE x \in at : \A y \in at : y <= x
    IN  IF at = {} THEN None
        ELSE Some(<<SubSeq(t, 1, i - 1), SubSeq(t, i + 1, Len(t))>>)

UpperCase ==
    <<"A","B","C","D","E","F","G","H","I","J","K","L","M",
      "N","O","P","Q","R","S","T","U","V","W","X","Y","Z">>

LowerCase ==
    <<"a","b","c","d","e","f","g","h","i","j","k","l","m",
      "n","o","p","q","r","s","t","u","v","w","x","y","z">>

\* the image of ch under the letter table from, or ch itself
fold(ch, from, to) ==
    IF \E i \in 1..Len(from) : from[i] = ch
    THEN to[CHOOSE i \in 1..Len(from) : from[i] = ch]
    ELSE ch

\* str::to_ascii_lowercase
to_ascii_lowercase(t) == [i \in 1..Len(t) |-> fold(t[i], UpperCase, LowerCase)]

\* str::to_ascii_uppercase
to_ascii_uppercase(t) == [i \in 1..Len(t) |-> fold(t[i], LowerCase, UpperCase)]

Digits == <<"0","1","2","3","4","5","6","7","8","9">>

\* usize::to_string: n in decimal
RECURSIVE to_string(_)
to_string(n) ==
    IF n < 10 THEN <<Digits[n + 1]>>
    ELSE Append(to_string(n \div 10), Digits[(n % 10) + 1])

\* slice::reverse
reversed(t) == [i \in 1..Len(t) |-> t[Len(t) + 1 - i]]

----------------------------------------------------------------------------
(* The text cursor (crate::util::Consumer).  Its code is not among the     *)
(* source files; it is modelled from section 4.1 of the specification.     *)

\* Consumer::new(s, None, file): a cursor over the whole buffer
Consumer(s, file) == [s |-> s, pos |-> 0, end |-> Len(s), file |-> file]

\* next(): the character at pos, advancing by one; nothing at end
next(c) ==
    IF c.pos >= c.end \/ c.pos >= Len(c.s)
    THEN [ch |-> None, r |-> c]
    ELSE [ch |-> Some(c.s[c.pos + 1]), r |-> [c EXCEPT !.pos = @ + 1]]

\* back(): undoes one advance
back(c) == [c EXCEPT !.pos = @ - 1]

\* the remaining characters, pos up to end
remaining(c) ==
    LET e == IF c.end < Len(c.s) THEN c.end ELSE Len(c.s)
    IN  SubSeq(c.s, c.pos + 1, e)

\* collect(): consumes all remaining characters and exhausts the cursor
collect(c) ==
    [v |-> remaining(c), r |-> [c EXCEPT !.pos = IF c.end > @ THEN c.end ELSE @]]

\* read_til_eol(): all characters up to and excluding the next line
\* terminator; nothing if already at end
read_til_eol(c) ==
    IF c.pos >= c.end \/ c.pos >= Len(c.s) THEN [v |-> None, r |-> c]
    ELSE LET rest == remaining(c)
             i    == find(rest, "\n")
             n    == IF i = 0 THEN Len(rest) ELSE i - 1
         IN  [v |-> Some(SubSeq(rest, 1, n)), r |-> [c EXCEPT !.pos = @ + n]]

\* range(start..stop): a bounded view sharing the buffer, with no stream
\* source; fails when the range is not inside the buffer
range(c, start, stop) ==
    IF start <= stop /\ stop <= Len(c.s)
    THEN Some([s |-> c.s, pos |-> start, end |-> stop, file |-> c.file])
    ELSE None

----------------------------------------------------------------------------
(* Macro definitions and the process-wide builtin table.                   *)

\* MacroType::Internal(fn): the catalog function, identified by its name
Internal(fn) == [kind |-> "Internal", fn |-> fn]

\* MacroType::Runtime { file, offset, len, s, param }
Runtime(file, offset, len, s, param) ==
    [kind |-> "Runtime", file |-> file, offset |-> offset, len |-> len,
     s |-> s, param |-> param]

\* impl From<&str> for MacroType
MacroTypeFrom(value) == Runtime("unknown", 0, str_len(value), value, FALSE)

\* the names of the catalog functions, as stringify!($m) spells them
BuiltinNames ==
    {
    <<"d","e","f","i","n","e">>,
    <<"g","l","o","b","a","l">>,
    <<"u","n","d","e","f","i","n","e">>,
    <<"l","o","a","d">>,
    <<"e","x","p","a","n","d">>,
    <<"e","x","p","r">>,
    <<"l","u","a">>,
    <<"m","a","c","r","o","b","o","d","y">>,
    <<"q","u","o","t","e">>,
    <<"g","s","u","b">>,
    <<"l","e","n">>,
    <<"l","o","w","e","r">>,
    <<"r","e","p">>,
    <<"r","e","v","e","r","s","e">>,
    <<"s","u","b">>,
    <<"u","p","p","e","r">>,
    <<"s","h","e","s","c","a","p","e">>,
    <<"s","h","r","i","n","k">>,
    <<"b","a","s","e","n","a","m","e">>,
    <<"d","i","r","n","a","m","e">>,
    <<"e","x","i","s","t","s">>,
    <<"s","u","f","f","i","x">>,
    <<"u","r","l","2","p","a","t","h">>,
    <<"u","2","p">>,
    <<"u","n","c","o","m","p","r","e","s","s">>,
    <<"g","e","t","n","c","p","u","s">>,
    <<"g","e","t","c","o","n","f","i","d","i","r">>,
    <<"g","e","t","e","n","v">>,
    <<"r","p","m","v","e","r","s","i","o","n">>,
    <<"e","c","h","o">>,
    <<"w","a","r","n">>,
    <<"e","r","r","o","r">>,
    <<"v","e","r","b","o","s","e">>,
    <<"S">>,
    <<"P">>,
    <<"t","r","a","c","e">>,
    <<"d","u","m","p">>
    }

\* INTERNAL_MACROS: every catalog name mapped to a one-element stack
INTERNAL_MACROS == [n \in BuiltinNames |-> <<Internal(n)>>]

\* a fresh interpreter: its registry is seeded with the builtin table
SeededParser == [macros |-> INTERNAL_MACROS]

\* SpecParser::default(), what std::mem::take leaves behind: no macros
DefaultParser == [macros |-> << >>]

\* HashMap::remove
remove(m, k) == [n \in DOMAIN m \ {k} |-> m[n]]

\* SpecParser::define_macro(name, csm, param, len): pushes a Runtime
\* definition spanning csm.pos .. csm.pos + len of csm's buffer onto the
\* stack of name, creating the stack when the name is unseen
define_macro(ps, name, csm, param, len) ==
    LET m   == Runtime(csm.file, csm.pos, len, csm.s, param)
        old == IF name \in DOMAIN ps.macros THEN ps.macros[name] ELSE << >>
    IN  [ps EXCEPT !.macros =
            [n \in DOMAIN ps.macros \cup {name} |->
                IF n = name THEN Append(old, m) ELSE ps.macros[n]]]

\* p.macros.get(&name).map(|x| x.last()): the most recent definition
lookup(ps, name) ==
    IF name \in DOMAIN ps.macros /\ ps.macros[name] # << >>
    THEN Some(ps.macros[name][Len(ps.macros[name])])
    ELSE None

\* the number of Runtime definitions the registry holds
RECURSIVE CountRuntime(_, _)
CountRuntime(m, names) ==
    IF names = {} THEN 0
    ELSE LET n == CHOOSE x \in names : TRUE
         IN  Cardinality({i \in 1..Len(m[n]) : m[n][i].kind = "Runtime"})
             + CountRuntime(m, names \ {n})

NumRuntime(ps) == CountRuntime(ps.macros, DOMAIN ps.macros)

----------------------------------------------------------------------------
(* The builtins.  Each takes the interpreter state, the output buffer and  *)
(* the argument cursor, and yields them as the call leaves them, with the  *)
(* result ("Ok", "Err", "MacroNotFound", or "Panic" for an abort), the     *)
(* lines written to standard output and the events sent to the diagnostic  *)
(* log.                                                                    *)

Ret(ps, out, c, result) ==
    [p |-> ps, o |-> out, r |-> c, res |-> result, stdout |-> {}, log |-> << >>]

\* tracing::info! / warn! / error!: the event reaches the log when a
\* subscriber has the callsite enabled, and is dropped otherwise
Logged(ret, enabled, level, text) ==
    IF enabled
    THEN [ret EXCEPT !.log = Append(@, [level |-> level, text |-> text])]
    ELSE ret

\* define, lines 58-63: skip leading whitespace
RECURSIVE skip_whitespace(_)
skip_whitespace(c) ==
    LET n == next(c)
    IN  IF ~n.ch.some THEN n.r
        ELSE IF ~is_whitespace(n.ch.v) THEN back(n.r)
        ELSE skip_whitespace(n.r)

\* define, lines 58-73: the arguments handed to define_macro, or the error
define_args(c) ==
    LET c1  == skip_whitespace(c)
        pos == c1.pos
        rd  == read_til_eol(c1)
    IN  IF ~rd.v.some THEN [ok |-> FALSE, r |-> rd.r]
        ELSE LET sp == split_once(trim_start(rd.v.v))
             IN  IF ~sp.some THEN [ok |-> FALSE, r |-> rd.r]
                 ELSE LET def   == trim(sp.v[2])
                          st    == strip_suffix(sp.v[1])
                          name  == IF st.some THEN st.v ELSE sp.v[1]
                          param == st.some
                          csm   == range(rd.r, pos + 1 + str_len(name), rd.r.pos)
                      IN  IF ~csm.some THEN [ok |-> FALSE, r |-> rd.r]
                          ELSE [ok |-> TRUE, r |-> rd.r, name |-> name,
                                csm |-> csm.v, param |-> param,
                                len |-> str_len(def)]

define(ps, out, c) ==
    LET a == define_args(c)
    IN  IF ~a.ok THEN Ret(ps, out, a.r, "Err")
        ELSE Ret(define_macro(ps, a.name, a.csm, a.param, a.len), out, a.r, "Ok")

global(ps, out, c) == define(ps, out, c)

\* an undefine that pops only the most recent definition
undefine_pop(ps, out, c) ==
    LET rd == read_til_eol(c)
    IN  IF ~rd.v.some THEN Ret(ps, out, rd.r, "Panic")
        ELSE IF rd.v.v \notin DOMAIN ps.macros THEN Ret(ps, out, rd.r, "Ok")
        ELSE LET st == ps.macros[rd.v.v]
             IN  IF Len(st) <= 1
                 THEN Ret([ps EXCEPT !.macros = remove(@, rd.v.v)], out, rd.r, "Ok")
                 ELSE Ret([ps EXCEPT !.macros[rd.v.v] = SubSeq(st, 1, Len(st) - 1)],
                          out, rd.r, "Ok")

\* read_til_eol().unwrap() aborts when nothing is left to read
undefine(ps, out, c) ==
    LET rd == read_til_eol(c)
    IN  IF ~rd.v.some THEN Ret(ps, out, rd.r, "Panic")
        ELSE Ret([ps EXCEPT !.macros = remove(@, rd.v.v)], out, rd.r, "Ok")

BuiltinPlaceholder == <<"<","b","u","i","l","t","i","n",">">>

\* the text a definition's span selects from its backing buffer
body_text(m) ==
    remaining([s |-> m.s, pos |-> m.offset, end |-> m.offset + m.len,
               file |-> m.file])

\* a macrobody that resolves to the oldest definition of the stack
macrobody_first(ps, out, c) ==
    LET name == collect(c)
    IN  IF name.v \notin DOMAIN ps.macros \/ ps.macros[name.v] = << >>
        THEN Ret(ps, out, name.r, "MacroNotFound")
        ELSE LET m == ps.macros[name.v][1]
             IN  IF m.kind = "Internal"
                 THEN Ret(ps, out \o BuiltinPlaceholder, name.r, "Ok")
                 ELSE Ret(ps, out \o body_text(m), name.r, "Ok")

macrobody(ps, out, c) ==
    LET name == collect(c)
        m    == lookup(ps, name.v)
    IN  IF ~m.some THEN Ret(ps, out, name.r, "MacroNotFound")
        ELSE IF m.v.kind = "Internal"
        THEN Ret(ps, out \o BuiltinPlaceholder, name.r, "Ok")
        ELSE Ret(ps, out \o body_text(m.v), name.r, "Ok")

\* What code outside this file does to the interpreter it is handed: it
\* defines a macro, undefines one, or leaves the registry alone.
effect_on(parser, e) ==
    IF e.effect = "define"
    THEN LET m   == MacroTypeFrom(e.body)
             old == IF e.name \in DOMAIN parser.macros
                    THEN parser.macros[e.name] ELSE << >>
         IN  [parser EXCEPT !.macros =
                [n \in DOMAIN parser.macros \cup {e.name} |->
                    IF n = e.name THEN Append(old, m)
                    ELSE parser.macros[n]]]
    ELSE IF e.effect = "undefine"
    THEN [parser EXCEPT !.macros = remove(@, e.name)]
    ELSE parser

\* crate::lua::run(&parser, &content): the script host.  Its code is not
\* among the source files.  A script is described by what it does to the
\* interpreter it is given (define a macro, undefine one, or nothing), the
\* text it prints, and whether the run ends in an error.  No reference to the
\* interpreter outlives the run, so Arc::try_unwrap at line 116 succeeds.
lua_run(parser, content, script) ==
    [ok |-> ~script.fails, out |-> script.out,
     parser |-> effect_on(parser, script)]

\* lines 113-118: the interpreter is moved out of p (leaving the default),
\* the script runs on it, and only after a successful run it is swapped back
lua(ps, out, c, script) ==
    LET content == collect(c)
        run     == lua_run(ps, content.v, script)
    IN  IF ~run.ok THEN Ret(DefaultParser, out, content.r, "Err")
        ELSE Ret(run.parser, out \o run.out, content.r, "Ok")

\* a shescape that closes and reopens the quotes without the backslash
RECURSIVE shescape_noslash_loop(_, _)
shescape_noslash_loop(t, out) ==
    IF t = << >> THEN out
    ELSE shescape_noslash_loop(Tail(t),
            IF Head(t) = "'" THEN out \o <<"'", "'", "'">>
            ELSE Append(out, Head(t)))

shescape_noslash(ps, out, c) ==
    Ret(ps, Append(shescape_noslash_loop(remaining(c), Append(out, "'")), "'"),
        collect(c).r, "Ok")

\* lines 175-182: the loop over the remaining characters
RECURSIVE shescape_loop(_, _)
shescape_loop(t, out) ==
    IF t = << >> THEN out
    ELSE shescape_loop(Tail(t),
            IF Head(t) = "'" THEN out \o <<"'", "\\", "'", "'">>
            ELSE Append(out, Head(t)))

shescape(ps, out, c) ==
    Ret(ps, Append(shescape_loop(remaining(c), Append(out, "'")), "'"),
        collect(c).r, "Ok")

\* lines 187-192: drop whitespace up to the first other character, push it
RECURSIVE shrink_head(_, _)
shrink_head(t, out) ==
    IF t = << >> THEN [t |-> t, o |-> out]
    ELSE IF ~is_whitespace(Head(t)) THEN [t |-> Tail(t), o |-> Append(out, Head(t))]
    ELSE shrink_head(Tail(t), out)

\* lines 193-204: a pending space is emitted only before the next character
RECURSIVE shrink_loop(_, _, _)
shrink_loop(t, space, out) ==
    IF t = << >> THEN out
    ELSE IF is_whitespace(Head(t)) THEN shrink_loop(Tail(t), TRUE, out)
    ELSE shrink_loop(Tail(t), FALSE,
            IF space THEN out \o <<" ", Head(t)>> ELSE Append(out, Head(t)))

\* a shrink that emits the space as soon as a run of whitespace ends, also at
\* the end of the text
RECURSIVE shrink_eager_loop(_, _, _)
shrink_eager_loop(t, space, out) ==
    IF t = << >> THEN (IF space THEN Append(out, " ") ELSE out)
    ELSE IF is_whitespace(Head(t)) THEN shrink_eager_loop(Tail(t), TRUE, out)
    ELSE shrink_eager_loop(Tail(t), FALSE,
            IF space THEN out \o <<" ", Head(t)>> ELSE Append(out, Head(t)))

shrink_eager(ps, out, c) ==
    LET h == shrink_head(remaining(c), out)
    IN  Ret(ps, shrink_eager_loop(h.t, FALSE, h.o), collect(c).r, "Ok")

shrink(ps, out, c) ==
    LET h == shrink_head(remaining(c), out)
    IN  Ret(ps, shrink_loop(h.t, FALSE, h.o), collect(c).r, "Ok")

\* the default configuration directory, line 262
DefaultConfigDir == <<"/","u","s","r","/","l","i","b","/","r","p","m">>

\* std::env::var("RPM_CONFIGDIR"): env.kind is "Unset", "Unicode" (env.v is
\* the value) or "NotUnicode"
getconfidir(ps, out, c, env) ==
    IF env.kind = "NotUnicode" THEN Ret(ps, out, c, "Err")
    ELSE IF env.kind = "Unicode" THEN Ret(ps, out \o env.v, c, "Ok")
    ELSE Ret(ps, out \o DefaultConfigDir, c, "Ok")

\* SpecParser::load_macro_from_file(path): the loader of macro files.  Its
\* code is not among the source files.  A file is described by what loading
\* it does to the registry, and whether the load ends in an error.
load_macro_from_file(ps, path, file) ==
    [ok |-> ~file.fails, parser |-> effect_on(ps, file)]

\* lines 84-88: the path is collected and handed to the loader, which works
\* on p in place
load(ps, out, c, file) ==
    LET f  == collect(c)
        ld == load_macro_from_file(ps, f.v, file)
    IN  Ret(ld.parser, out, f.r, IF ld.ok THEN "Ok" ELSE "Err")

\* SpecParser::parse_macro(o, reader): the expansion driver.  Its code is not
\* among the source files.  An expansion is described by what it does to the
\* registry, the text it appends to the output buffer, and whether it ends
\* in an error; the driver works on p and o in place, so what it did before
\* an error stays.
parse_macro(ps, out, reader, expansion) ==
    [ok |-> ~expansion.fails, o |-> out \o expansion.out,
     parser |-> effect_on(ps, expansion)]

\* lines 89-108: the driver runs on a range view of what is left of r; r
\* itself is not advanced
expand(ps, out, c, expansion) ==
    LET new_reader == range(c, c.pos, c.end)
    IN  IF ~new_reader.some THEN Ret(ps, out, c, "Err")
        ELSE LET pm == parse_macro(ps, out, new_reader.v, expansion)
             IN  Ret(pm.parser, pm.o, c, IF pm.ok THEN "Ok" ELSE "Err")

\* todo!() aborts the call
expr(ps, out, c) == Ret(ps, out, c, "Panic")

quote(ps, out, c) ==
    LET t == collect(c)
    IN  Ret(ps, (Append(out, "\"") \o t.v) \o <<"\"">>, t.r, "Ok")

gsub(ps, out, c) == Ret(ps, out, c, "Panic")

\* the number of characters left, in decimal
len(ps, out, c) ==
    LET t == collect(c)
    IN  Ret(ps, out \o to_string(Len(t.v)), t.r, "Ok")

lower(ps, out, c) ==
    LET t == collect(c)
    IN  Ret(ps, out \o to_ascii_lowercase(t.v), t.r, "Ok")

rep(ps, out, c) == Ret(ps, out, c, "Panic")

reverse(ps, out, c) ==
    LET t == collect(c)
    IN  Ret(ps, out \o reversed(t.v), t.r, "Ok")

sub(ps, out, c) == Ret(ps, out, c, "Panic")

upper(ps, out, c) ==
    LET t == collect(c)
    IN  Ret(ps, out \o to_ascii_uppercase(t.v), t.r, "Ok")

\* the part after the last '/', or the whole text
basename(ps, out, c) ==
    LET t  == collect(c)
        sp == rsplit_once(t.v, "/")
    IN  Ret(ps, out \o (IF sp.some THEN sp.v[2] ELSE t.v), t.r, "Ok")

\* the part before the last '/', or the whole text
dirname(ps, out, c) ==
    LET t  == collect(c)
        sp == rsplit_once(t.v, "/")
    IN  Ret(ps, out \o (IF sp.some THEN sp.v[1] ELSE t.v), t.r, "Ok")

\* Path::exists asks the file system: found tells what it answered
exists(ps, out, c, found) ==
    LET t == collect(c)
    IN  Ret(ps, Append(out, IF found THEN "1" ELSE "0"), t.r, "Ok")

\* the part after the last '.', or nothing
suffix(ps, out, c) ==
    LET t  == collect(c)
        sp == rsplit_once(t.v, ".")
    IN  Ret(ps, out \o (IF sp.some THEN sp.v[2] ELSE << >>), t.r, "Ok")

\* the schemes of line 235
PathSchemes ==
    {<<"h","t","t","p","s">>, <<"h","t","t","p">>, <<"h","k","p">>,
     <<"f","i","l","e">>, <<"f","t","p">>}

\* url::Url::parse is the work of the url crate: url tells what it returned,
\* an error or a URL with its scheme and path
url2path(ps, out, c, url) ==
    LET t == collect(c)
    IN  IF ~url.ok THEN Ret(ps, out \o t.v, t.r, "Ok")
        ELSE IF url.scheme \in PathSchemes THEN Ret(ps, out \o url.path, t.r, "Ok")
        ELSE Ret(ps, out \o t.v, t.r, "Ok")

u2p(ps, out, c, url) == url2path(ps, out, c, url)

uncompress(ps, out, c) == Ret(ps, out, c, "Panic")

\* num_cpus::get() asks the platform: ncpus tells what it answered.  The
\* field of the event is evaluated only when the callsite is enabled, so an
\* argument is collected only then.
getncpus(ps, out, c, ncpus, enabled) ==
    LET n == next(c)
    IN  IF n.ch.some /\ enabled
        THEN LET args == collect(back(n.r))
             IN  Logged(Ret(ps, out \o to_string(ncpus), args.r, "Ok"),
                        enabled, "warn", args.v)
        ELSE IF n.ch.some
        THEN Ret(ps, out \o to_string(ncpus), back(n.r), "Ok")
        ELSE Ret(ps, out \o to_string(ncpus), n.r, "Ok")

\* std::env::var(name): env.kind is "Unset", "Unicode" (env.v is the value)
\* or "NotUnicode"
getenv(ps, out, c, env) ==
    LET name == collect(c)
    IN  IF env.kind = "Unicode" THEN Ret(ps, out \o env.v, name.r, "Ok")
        ELSE IF env.kind = "Unset" THEN Ret(ps, out, name.r, "Ok")
        ELSE Ret(ps, out, name.r, "Err")

rpmversion(ps, out, c) == Ret(ps, out, c, "Panic")

\* lines 277-288: the argument of the event is evaluated only when the
\* callsite is enabled, so r is collected only then
echo(ps, out, c, enabled) ==
    LET t == collect(c)
    IN  IF enabled THEN Logged(Ret(ps, out, t.r, "Ok"), enabled, "info", t.v)
        ELSE Ret(ps, out, c, "Ok")

warn(ps, out, c, enabled) ==
    LET t == collect(c)
    IN  IF enabled THEN Logged(Ret(ps, out, t.r, "Ok"), enabled, "warn", t.v)
        ELSE Ret(ps, out, c, "Ok")

error(ps, out, c, enabled) ==
    LET t == collect(c)
    IN  IF enabled THEN Logged(Ret(ps, out, t.r, "Ok"), enabled, "error", t.v)
        ELSE Ret(ps, out, c, "Ok")

verbose(ps, out, c) == Ret(ps, Append(out, "0"), c, "Ok")

\* lines 294-299: %SOURCE is expanded from a cursor of its own, then what is
\* left of r is passed through
S(ps, out, c, expansion) ==
    LET e == expand(ps, out, Consumer(<<"%","S","O","U","R","C","E">>, c.file),
                    expansion)
        t == collect(c)
    IN  IF e.res # "Ok" THEN Ret(e.p, e.o, c, e.res)
        ELSE Ret(e.p, e.o \o t.v, t.r, "Ok")

\* lines 300-305: the same with %PATCH
P(ps, out, c, expansion) ==
    LET e == expand(ps, out, Consumer(<<"%","P","A","T","C","H">>, c.file),
                    expansion)
        t == collect(c)
    IN  IF e.res # "Ok" THEN Ret(e.p, e.o, c, e.res)
        ELSE Ret(e.p, e.o \o t.v, t.r, "Ok")

trace(ps, out, c) == Ret(ps, out, c, "Panic")

\* lines 321-329: the line dump writes for a Runtime definition m of name k;
\* nothing when one of the two slices of the buffer aborts
dump_line(k, m) ==
    LET front == byte_slice(m.s, 0, m.offset)
        inner == byte_slice(m.s, m.offset, m.offset + m.len)
    IN  IF ~front.some \/ ~inner.some THEN None
        ELSE LET nline == Cardinality({i \in 1..Len(front.v) :
                                            front.v[i] = "\n"}) + 1
                 f     == find(front.v, "\n")
                 col   == m.offset - (IF f = 0 THEN 0
                                      ELSE str_len(SubSeq(front.v, 1, f - 1)))
             IN  Some([internal |-> FALSE, file |-> m.file, nline |-> nline,
                       col |-> col, name |-> k,
                       suffix |-> IF m.param THEN "{}" ELSE "",
                       body |-> inner.v])

\* line 318: the line dump writes for a builtin ("[<internal>]", no position)
dump_internal(k) ==
    [internal |-> TRUE, file |-> "<internal>", nline |-> 0, col |-> 0,
     name |-> k, suffix |-> "", body |-> BuiltinPlaceholder]

\* lines 315-331: the loop over the map, whose names come in the order the
\* map yields them.  Standard output takes `takes` more writes and refuses
\* the next one; a refused write ends the call with an error (the `?` of
\* lines 318 and 329), after the lines written before it.
RECURSIVE dump_loop(_, _, _, _)
dump_loop(ps, order, takes, lines) ==
    IF order = << >> THEN [res |-> "Ok", lines |-> lines]
    ELSE LET k == Head(order)
             v == lookup(ps, k)
         IN  IF ~v.some THEN dump_loop(ps, Tail(order), takes, lines)
             ELSE IF v.v.kind = "Internal"
             THEN (IF takes = 0 THEN [res |-> "Err", lines |-> lines]
                   ELSE dump_loop(ps, Tail(order), takes - 1,
                                  lines \cup {dump_internal(k)}))
             ELSE LET l == dump_line(k, v.v)
                  IN  IF ~l.some THEN [res |-> "Panic", lines |-> lines]
                      ELSE IF takes = 0 THEN [res |-> "Err", lines |-> lines]
                      ELSE dump_loop(ps, Tail(order), takes - 1,
                                     lines \cup {l.v})

\* lines 310-313: the arguments are collected, and reported when there are
\* any; then one line per registered name.  order lists the names of
\* ps.macros as the map yields them, takes is the number of writes standard
\* output takes before it refuses one.
dump(ps, out, c, order, takes, enabled) ==
    LET args == collect(c)
        loop == dump_loop(ps, order, takes, {})
        ret  == [Ret(ps, out, args.r, loop.res) EXCEPT !.stdout = loop.lines]
    IN  IF str_len(args.v) # 0 THEN Logged(ret, enabled, "warn", args.v)
        ELSE ret

----------------------------------------------------------------------------
(* The inputs the calls are drawn from.                                    *)

File == "spec"

\* the output buffer the caller passes in: it holds earlier output
Outs == {<<"z">>}

\* argument lines given to define and global in specification Spec
DefineLines ==
    {<<"S", " ", "b">>, <<"x", " ", "b">>, <<"x", "(", ")", " ", "c">>, <<"S">>}

\* argument texts naming a macro, among them the empty argument
NameTexts ==
    {<<"S">>, <<"x">>, <<"S", "\n", "x">>, << >>,
     <<"g","e","t","c","o","n","f","d","i","r">>}

\* the argument cursors of specification Spec: a fresh cursor over each text,
\* and for names also a range view of the last character of a longer buffer
DefineCursors == {Consumer(t, File) : t \in DefineLines}

NameCursors ==
    {Consumer(t, File) : t \in NameTexts}
    \cup {[s |-> <<"x", " ", "S">>, pos |-> 2, end |-> 3, file |-> File]}

\* the argument cursors of specification SpecDefine: every line up to MaxLine
LineAlphabet == {"S", " ", "\n", "\r", "(", ")"}

LineCursors == {Consumer(t, File) : t \in TextsUpTo(LineAlphabet, MaxLine)}

\* the argument cursors of specification SpecText: every text up to MaxText
TextAlphabet == {"a", " ", "\n", "\r", "'", "\\"}

TextCursors == {Consumer(t, File) : t \in TextsUpTo(TextAlphabet, MaxText)}

NoScript == [effect |-> "none", name |-> << >>, body |-> << >>,
             out |-> << >>, fails |-> FALSE]

\* what a script may do before it returns or fails
Scripts ==
    {[effect |-> "define", name |-> <<"x">>, body |-> <<"b">>, out |-> <<"k">>,
      fails |-> f] : f \in BOOLEAN}
    \cup {[effect |-> "undefine", name |-> <<"S">>, body |-> << >>,
           out |-> <<"k">>, fails |-> f] : f \in BOOLEAN}
    \cup {[NoScript EXCEPT !.out = <<"k">>, !.fails = f] : f \in BOOLEAN}

\* what loading a macro file may do: define x, or fail finding nothing
Files ==
    {[effect |-> "define", name |-> <<"x">>, body |-> <<"b">>, out |-> << >>,
      fails |-> FALSE],
     [NoScript EXCEPT !.fails = TRUE]}

\* what an expansion may do before it returns or fails
Expansions ==
    {[effect |-> "define", name |-> <<"S">>, body |-> <<"c">>, out |-> << >>,
      fails |-> FALSE],
     [NoScript EXCEPT !.out = <<"k">>],
     [NoScript EXCEPT !.out = <<"k">>, !.fails = TRUE]}

NoEnv == [kind |-> "Unset", v |-> << >>]

\* the states of an environment variable
Envs == {NoEnv, [kind |-> "Unicode", v |-> <<"/", "e">>],
         [kind |-> "NotUnicode", v |-> << >>]}

\* the answers of Url::parse: an error, a URL of a scheme of line 235, a URL
\* of another scheme
Urls ==
    {[ok |-> FALSE, scheme |-> << >>, path |-> << >>],
     [ok |-> TRUE, scheme |-> <<"h","k","p">>, path |-> <<"/", "e">>],
     [ok |-> TRUE, scheme |-> <<"g","i","t">>, path |-> <<"/", "e">>]}

\* the answers of num_cpus::get
Cpus == {1, 16}

\* the number of writes standard output takes before it refuses one: any
\* number up to the lines dump has to write, with which it refuses none
Sinks(ps) == 0..Cardinality(DOMAIN ps.macros)

\* all orders of the elements of the set K
RECURSIVE Perms(_)
Perms(K) ==
    IF K = {} THEN {<< >>}
    ELSE UNION {{<<k>> \o q : q \in Perms(K \ {k})} : k \in K}

\* the orders in which the map of ps may yield its names: all of them
Orders(ps) == Perms(DOMAIN ps.macros)

\* define lines of specification SpecDump: on the first and on the third line
\* of the buffer, and one with characters of two bytes, for which the span
\* define stores ends inside a character
DumpLines ==
    {<<"S", " ", "b">>, <<"\n", "\n", "x", " ", "b">>,
     <<"C3A9", "(", ")", " ", "C3A9", "a">>}

\* the arguments given to dump: none, and some
DumpTexts == {<< >>, <<"a", "b">>}

\* the argument of the one call of expand, load, S and P in specification Spec
MacroText == Consumer(<<"%", "x">>, File)

\* argument texts for the builtins that only write text
CatalogTexts ==
    {<< >>, <<"a", "/", "B", ".", "c">>, <<"A", " ", "b">>, <<"/">>,
     <<"a", ".", "b", "/", "c">>}

CatalogCursors ==
    {Consumer(t, File) : t \in CatalogTexts}
    \cup {[s |-> <<"x", " ", "S">>, pos |-> 2, end |-> 3, file |-> File]}

----------------------------------------------------------------------------
(* The state machine.  p, o, r are the interpreter state, the output       *)
(* buffer and the argument cursor as the last call left them, res its      *)
(* result, stdout the lines it wrote and log the events it sent to the     *)
(* diagnostic log.  call records the last call: its name, what it was      *)
(* given and what the world outside answered.  latest records, for each   *)
(* name, the definition pushed most recently since the name was last       *)
(* undefined.                                                              *)

Pushed(lat, name, m) ==
    [n \in DOMAIN lat \cup {name} |-> IF n = name THEN m ELSE lat[n]]

Forgotten(lat, name) == [n \in DOMAIN lat \ {name} |-> lat[n]]

InitWith(C) ==
    /\ p = SeededParser
    /\ o = << >>
    /\ r \in C
    /\ res = "Ok"
    /\ stdout = {}
    /\ log = << >>
    /\ call = [op |-> "new", p0 |-> SeededParser, o0 |-> << >>,
               r0 |-> Consumer(<< >>, File), script |-> NoScript, env |-> NoEnv]
    /\ latest = [n \in BuiltinNames |-> Internal(n)]

\* a freshly constructed interpreter
Init == InitWith({Consumer(<< >>, File)})

Do(op, ret, o0, r0, script, env, lat) ==
    /\ p' = ret.p
    /\ o' = ret.o
    /\ r' = ret.r
    /\ res' = ret.res
    /\ stdout' = ret.stdout
    /\ log' = ret.log
    /\ call' = [op |-> op, p0 |-> p, o0 |-> o0, r0 |-> r0,
                script |-> script, env |-> env]
    /\ latest' = lat

\* what the world outside answered a call
Answer(kind, v) == [kind |-> kind, v |-> v]

AfterDefine(lat, c) ==
    LET a == define_args(c)
    IN  IF a.ok
        THEN Pushed(lat, a.name,
                    Runtime(a.csm.file, a.csm.pos, a.len, a.csm.s, a.param))
        ELSE lat

\* what effect_on does, followed on latest
AfterEffect(lat, e) ==
    IF e.effect = "define" THEN Pushed(lat, e.name, MacroTypeFrom(e.body))
    ELSE IF e.effect = "undefine" THEN Forgotten(lat, e.name)
    ELSE lat

\* the registry has room for one more user definition
Room == NumRuntime(p) < MaxDefs

Define(C) ==
    /\ Room
    /\ \E c \in C, o0 \in Outs :
            Do("define", define(p, o0, c), o0, c, NoScript, NoEnv,
               AfterDefine(latest, c))

Global(C) ==
    /\ Room
    /\ \E c \in C, o0 \in Outs :
            Do("global", global(p, o0, c), o0, c, NoScript, NoEnv,
               AfterDefine(latest, c))

Undefine(C) ==
    \E c \in C, o0 \in Outs :
        LET rd == read_til_eol(c)
        IN  Do("undefine", undefine(p, o0, c), o0, c, NoScript, NoEnv,
               IF rd.v.some THEN Forgotten(latest, rd.v.v) ELSE latest)

Macrobody(C) ==
    \E c \in C, o0 \in Outs :
        Do("macrobody", macrobody(p, o0, c), o0, c, NoScript, NoEnv, latest)

Lua ==
    \E script \in Scripts, o0 \in Outs :
        LET c == Consumer(<<"l", "u", "a">>, File)
        IN  /\ script.effect = "define" => Room
            /\ Do("lua", lua(p, o0, c, script), o0, c, script, NoEnv,
                  AfterEffect(latest, script))

Load(C) ==
    \E c \in C, file \in Files, o0 \in Outs :
        /\ file.effect = "define" => Room
        /\ Do("load", load(p, o0, c, file), o0, c, file, NoEnv,
              AfterEffect(latest, file))

Expand(C) ==
    \E c \in C, expansion \in Expansions, o0 \in Outs :
        /\ expansion.effect = "define" => Room
        /\ Do("expand", expand(p, o0, c, expansion), o0, c, expansion, NoEnv,
              AfterEffect(latest, expansion))

CallS(C) ==
    \E c \in C, expansion \in Expansions, o0 \in Outs :
        /\ expansion.effect = "define" => Room
        /\ Do("S", S(p, o0, c, expansion), o0, c, expansion, NoEnv,
              AfterEffect(latest, expansion))

CallP(C) ==
    \E c \in C, expansion \in Expansions, o0 \in Outs :
        /\ expansion.effect = "define" => Room
        /\ Do("P", P(p, o0, c, expansion), o0, c, expansion, NoEnv,
              AfterEffect(latest, expansion))

Getconfidir ==
    \E env \in Envs, o0 \in Outs :
        LET c == Consumer(<< >>, File)
        IN  Do("getconfidir", getconfidir(p, o0, c, env), o0, c, NoScript, env,
               latest)

\* dump of a registry of at most MaxNames names, for every order of the map
\* and every number of writes standard output takes
Dump ==
    /\ Cardinality(DOMAIN p.macros) <= MaxNames
    /\ \E t \in DumpTexts, o0 \in Outs, order \in Orders(p), takes \in Sinks(p),
          enabled \in BOOLEAN :
            LET c == Consumer(t, File)
            IN  Do("dump", dump(p, o0, c, order, takes, enabled), o0, c,
                   NoScript,
                   Answer("Stdout", [order |-> order, takes |-> takes,
                                     enabled |-> enabled]),
                   latest)

\* The builtins that read their argument and write text or log events,
\* leaving the registry alone.
Pure(op, ret, o0, c, env) == Do(op, ret, o0, c, NoScript, env, latest)

Quote(C) ==
    \E c \in C, o0 \in Outs : Pure("quote", quote(p, o0, c), o0, c, NoEnv)

Length(C) ==
    \E c \in C, o0 \in Outs : Pure("len", len(p, o0, c), o0, c, NoEnv)

Lower(C) ==
    \E c \in C, o0 \in Outs : Pure("lower", lower(p, o0, c), o0, c, NoEnv)

Upper(C) ==
    \E c \in C, o0 \in Outs : Pure("upper", upper(p, o0, c), o0, c, NoEnv)

Reverse(C) ==
    \E c \in C, o0 \in Outs : Pure("reverse", reverse(p, o0, c), o0, c, NoEnv)

Shescape(C) ==
    \E c \in C, o0 \in Outs : Pure("shescape", shescape(p, o0, c), o0, c, NoEnv)

Shrink(C) ==
    \E c \in C, o0 \in Outs : Pure("shrink", shrink(p, o0, c), o0, c, NoEnv)

Basename(C) ==
    \E c \in C, o0 \in Outs : Pure("basename", basename(p, o0, c), o0, c, NoEnv)

Dirname(C) ==
    \E c \in C, o0 \in Outs : Pure("dirname", dirname(p, o0, c), o0, c, NoEnv)

Exists(C) ==
    \E c \in C, o0 \in Outs, found \in BOOLEAN :
        Pure("exists", exists(p, o0, c, found), o0, c, Answer("Path", found))

Suffix(C) ==
    \E c \in C, o0 \in Outs : Pure("suffix", suffix(p, o0, c), o0, c, NoEnv)

Url2path(C) ==
    \E c \in C, o0 \in Outs, url \in Urls :
        Pure("url2path", url2path(p, o0, c, url), o0, c, Answer("Url", url))

U2p(C) ==
    \E c \in C, o0 \in Outs, url \in Urls :
        Pure("u2p", u2p(p, o0, c, url), o0, c, Answer("Url", url))

Getncpus(C) ==
    \E c \in C, o0 \in Outs, ncpus \in Cpus, enabled \in BOOLEAN :
        Pure("getncpus", getncpus(p, o0, c, ncpus, enabled), o0, c,
             Answer("Cpus", [ncpus |-> ncpus, enabled |-> enabled]))

Getenv(C) ==
    \E c \in C, o0 \in Outs, env \in Envs :
        Pure("getenv", getenv(p, o0, c, env), o0, c, env)

Echo(C) ==
    \E c \in C, o0 \in Outs, enabled \in BOOLEAN :
        Pure("echo", echo(p, o0, c, enabled), o0, c, Answer("Subscriber", enabled))

Warn(C) ==
    \E c \in C, o0 \in Outs, enabled \in BOOLEAN :
        Pure("warn", warn(p, o0, c, enabled), o0, c, Answer("Subscriber", enabled))

Error(C) ==
    \E c \in C, o0 \in Outs, enabled \in BOOLEAN :
        Pure("error", error(p, o0, c, enabled), o0, c, Answer("Subscriber", enabled))

Verbose(C) ==
    \E c \in C, o0 \in Outs : Pure("verbose", verbose(p, o0, c), o0, c, NoEnv)

\* The builtins that abort.
Expr(C) ==
    \E c \in C, o0 \in Outs : Pure("expr", expr(p, o0, c), o0, c, NoEnv)

Gsub(C) ==
    \E c \in C, o0 \in Outs : Pure("gsub", gsub(p, o0, c), o0, c, NoEnv)

Rep(C) ==
    \E c \in C, o0 \in Outs : Pure("rep", rep(p, o0, c), o0, c, NoEnv)

Sub(C) ==
    \E c \in C, o0 \in Outs : Pure("sub", sub(p, o0, c), o0, c, NoEnv)

Uncompress(C) ==
    \E c \in C, o0 \in Outs :
        Pure("uncompress", uncompress(p, o0, c), o0, c, NoEnv)

Rpmversion(C) ==
    \E c \in C, o0 \in Outs :
        Pure("rpmversion", rpmversion(p, o0, c), o0, c, NoEnv)

Trace(C) ==
    \E c \in C, o0 \in Outs : Pure("trace", trace(p, o0, c), o0, c, NoEnv)

\* the registry under sequences of the calls that read or change it
Next ==
    \/ Define(DefineCursors)
    \/ Global(DefineCursors)
    \/ Undefine(NameCursors)
    \/ Macrobody(NameCursors)
    \/ Lua
    \/ Getconfidir
    \/ Load({MacroText})
    \/ Expand({MacroText})
    \/ CallS({MacroText})
    \/ CallP({MacroText})

Spec == Init /\ [][Next]_vars

\* The first call on a fresh interpreter, given the cursor r.
DefineGiven ==
    \E o0 \in Outs :
        /\ call.op = "new"
        /\ Do("define", define(p, o0, r), o0, r, NoScript, NoEnv,
              AfterDefine(latest, r))

GlobalGiven ==
    \E o0 \in Outs :
        /\ call.op = "new"
        /\ Do("global", global(p, o0, r), o0, r, NoScript, NoEnv,
              AfterDefine(latest, r))

ShrinkGiven ==
    \E o0 \in Outs :
        /\ call.op = "new"
        /\ Do("shrink", shrink(p, o0, r), o0, r, NoScript, NoEnv, latest)

ShescapeGiven ==
    \E o0 \in Outs :
        /\ call.op = "new"
        /\ Do("shescape", shescape(p, o0, r), o0, r, NoScript, NoEnv, latest)

\* cursors naming the user-defined macros of the registry
DefinedNames ==
    {Consumer(n, File) : n \in {k \in DOMAIN p.macros :
                                  lookup(p, k).some /\ lookup(p, k).v.kind = "Runtime"}}

\* define or global of any line up to MaxLine on a fresh registry, then
\* macrobody of the defined name
NextDefine ==
    \/ DefineGiven
    \/ GlobalGiven
    \/ Macrobody(DefinedNames)

SpecDefine == InitWith(LineCursors) /\ [][NextDefine]_vars

\* shrink and shescape of any text up to MaxText
NextText ==
    \/ ShrinkGiven
    \/ ShescapeGiven

SpecText == InitWith(TextCursors) /\ [][NextText]_vars

\* every builtin that leaves the registry alone, on the catalog's texts
NextCatalog ==
    \/ Quote(CatalogCursors)
    \/ Length(CatalogCursors)
    \/ Lower(CatalogCursors)
    \/ Upper(CatalogCursors)
    \/ Reverse(CatalogCursors)
    \/ Shescape(CatalogCursors)
    \/ Shrink(CatalogCursors)
    \/ Basename(CatalogCursors)
    \/ Dirname(CatalogCursors)
    \/ Exists(CatalogCursors)
    \/ Suffix(CatalogCursors)
    \/ Url2path(CatalogCursors)
    \/ U2p(CatalogCursors)
    \/ Getncpus(CatalogCursors)
    \/ Getenv(CatalogCursors)
    \/ Echo(CatalogCursors)
    \/ Warn(CatalogCursors)
    \/ Error(CatalogCursors)
    \/ Verbose(CatalogCursors)
    \/ Expr(CatalogCursors)
    \/ Gsub(CatalogCursors)
    \/ Rep(CatalogCursors)
    \/ Sub(CatalogCursors)
    \/ Uncompress(CatalogCursors)
    \/ Rpmversion(CatalogCursors)
    \/ Trace(CatalogCursors)

SpecCatalog == Init /\ [][NextCatalog]_vars

\* dump of small registries: a script that fails leaves the registry without
\* names (lines 114-115), and define fills it again
NextDump ==
    \/ Lua
    \/ Define({Consumer(t, File) : t \in DumpLines})
    \/ Dump

SpecDump == Init /\ [][NextDump]_vars

----------------------------------------------------------------------------
(* What the claims speak of, stated apart from the builtins' code.         *)

Min(K) == CHOOSE x \in K : \A y \in K : x <= y

Max(K) == CHOOSE x \in K : \A y \in K : x >= y

\* the characters of t at the positions K, in order
Restrict(t, K) ==
    [k \in 1..Cardinality(K) |->
        t[CHOOSE i \in K : Cardinality({j \in K : j <= i}) = k]]

NonWs(t) == {i \in 1..Len(t) : t[i] \notin WS}

\* t up to its first line terminator
FirstLine(t) ==
    LET nl == {i \in 1..Len(t) : t[i] = "\n"}
    IN  IF nl = {} THEN t ELSE SubSeq(t, 1, Min(nl) - 1)

\* t without the whitespace at its two ends
Trimmed(t) ==
    IF NonWs(t) = {} THEN << >> ELSE SubSeq(t, Min(NonWs(t)), Max(NonWs(t)))

\* the line define works on: what the cursor holds, from the first character
\* that is not whitespace up to the end of that line
ArgLine(c) ==
    LET t == remaining(c)
    IN  IF NonWs(t) = {} THEN << >>
        ELSE FirstLine(SubSeq(t, Min(NonWs(t)), Len(t)))

\* a line `name def` or `name() def` read as the claim reads it: the name is
\* the first run of characters other than whitespace, without a trailing
\* `()`, and def is the rest of the line, trimmed.  The line has the form
\* when the name is not empty, holds no parenthesis, and a space follows.
ExpectedDefine(c) ==
    LET line == ArgLine(c)
        ws   == {i \in 1..Len(line) : line[i] \in WS}
        n    == IF ws = {} THEN Len(line) ELSE Min(ws) - 1
        tok  == SubSeq(line, 1, n)
        par  == n >= 2 /\ line[n - 1] = "(" /\ line[n] = ")"
        name == IF par THEN SubSeq(tok, 1, n - 2) ELSE tok
    IN  [form  |-> /\ n < Len(line)
                   /\ line[n + 1] = " "
                   /\ name # << >>
                   /\ \A i \in 1..Len(name) : name[i] \notin {"(", ")"},
         name  |-> name,
         param |-> par,
         def   |-> Trimmed(SubSeq(line, n + 1, Len(line)))]

\* the text given to the last call
ArgText == remaining(call.r0)

\* C1: after undefine ran with argument n the registry holds no stack for n,
\* however many definitions were stacked under n, and a following lookup or
\* macrobody of n is a miss.
C1_UndefineRemovesWholeStack ==
    (call.op = "undefine" /\ res = "Ok") =>
        LET n == FirstLine(ArgText)
        IN  /\ n \notin DOMAIN p.macros
            /\ ~lookup(p, n).some
            /\ macrobody(p, << >>, Consumer(n, File)).res = "MacroNotFound"

\* C1 witness: undefine of a name that held two user definitions on top of a
\* seeded builtin.
C1_Witness ==
    /\ call.op = "undefine" /\ res = "Ok"
    /\ LET n == FirstLine(ArgText)
       IN  /\ n \in DOMAIN call.p0.macros
           /\ Len(call.p0.macros[n]) = 3
           /\ call.p0.macros[n][1].kind = "Internal"
           /\ call.p0.macros[n][2].kind = "Runtime"
           /\ call.p0.macros[n][3].kind = "Runtime"
           /\ n \notin DOMAIN p.macros

\* C2: every name of the registry has a non-empty stack whose top is the
\* definition pushed most recently since the name was last undefined; a
\* define that succeeds grows the stack of its name by exactly one, on top of
\* what was there, and leaves every other stack alone; macrobody of a name
\* emits the body of that most recent definition (the placeholder only when it
\* is a builtin).
C2_LookupResolvesToLatest ==
    /\ \A n \in DOMAIN p.macros :
            /\ p.macros[n] # << >>
            /\ n \in DOMAIN latest
            /\ lookup(p, n) = Some(latest[n])
    /\ (call.op \in {"define", "global"} /\ res = "Ok") =>
            LET n   == ExpectedDefine(call.r0).name
                old == IF n \in DOMAIN call.p0.macros
                       THEN call.p0.macros[n] ELSE << >>
            IN  /\ DOMAIN p.macros = DOMAIN call.p0.macros \cup {n}
                /\ Len(p.macros[n]) = Len(old) + 1
                /\ SubSeq(p.macros[n], 1, Len(old)) = old
                /\ p.macros[n][Len(old) + 1].kind = "Runtime"
                /\ \A m \in DOMAIN call.p0.macros \ {n} :
                        p.macros[m] = call.p0.macros[m]
    /\ (call.op = "macrobody" /\ ArgText \in DOMAIN call.p0.macros) =>
            /\ res = "Ok"
            /\ ArgText \in DOMAIN latest
            /\ o = call.o0 \o (IF latest[ArgText].kind = "Internal"
                               THEN BuiltinPlaceholder
                               ELSE body_text(latest[ArgText]))

\* C2 witness: macrobody of S after `S b` was defined over the builtin S
\* emits b, with the builtin still underneath.
C2_Witness ==
    /\ call.op = "macrobody" /\ res = "Ok"
    /\ ArgText = <<"S">>
    /\ Len(call.p0.macros[<<"S">>]) = 2
    /\ call.p0.macros[<<"S">>][1] = Internal(<<"S">>)
    /\ call.p0.macros[<<"S">>][2].kind = "Runtime"
    /\ o = call.o0 \o <<"b">>

\* C3: when lua returns, whether the script succeeded or failed, the
\* interpreter is the one the script left behind, and on success the script's
\* output is appended to the output buffer.
C3_LuaRestoresInterpreter ==
    call.op = "lua" =>
        LET run == lua_run(call.p0, ArgText, call.script)
        IN  /\ p = run.parser
            /\ res = "Ok" => o = call.o0 \o run.out

\* C4: after define succeeded on a line `name def` or `name() def`, the top
\* definition of name has takes_parameter set exactly when `()` was present
\* and a span inside its buffer that re-slices to the trimmed def, which is
\* what macrobody of name emits.
C4_DefineMacrobodyRoundTrip ==
    (call.op \in {"define", "global"} /\ res = "Ok"
        /\ ExpectedDefine(call.r0).form) =>
        LET e == ExpectedDefine(call.r0)
            m == lookup(p, e.name)
        IN  /\ m.some
            /\ m.v.kind = "Runtime"
            /\ m.v.param = e.param
            /\ m.v.offset + m.v.len <= Len(m.v.s)
            /\ SubSeq(m.v.s, m.v.offset + 1, m.v.offset + m.v.len) = e.def
            /\ macrobody(p, << >>, Consumer(e.name, File)).o = e.def

\* the line holds a second token: after the name and a space there is a
\* character that is not whitespace
HasSecondToken(line) ==
    \E i, j \in 1..Len(line) : i < j /\ line[i] = " " /\ line[j] \notin WS

\* C5: when the line given to define or global holds no space-separated
\* second token after the name, the call returns the error of a malformed
\* directive and leaves the registry and the output buffer as they were.
\* ("Err" is the one kind of error define returns, built at lines 65, 69 and
\* 73 from a message.)
C5_DefineWithoutSecondToken ==
    (call.op \in {"define", "global"} /\ ~HasSecondToken(ArgLine(call.r0))) =>
        /\ res = "Err"
        /\ p = call.p0
        /\ o = call.o0

\* C6: undefine never fails or aborts, and leaves the registry unchanged when
\* the name it read has no definition stack.
C6_UndefineNeverFails ==
    call.op = "undefine" =>
        /\ res = "Ok"
        /\ FirstLine(ArgText) \notin DOMAIN call.p0.macros => p = call.p0

\* t with its leading whitespace removed and every other run of whitespace
\* replaced by one space, a trailing run included
CollapsedKeepingTail(t) ==
    LET K == {i \in 1..Len(t) :
                \/ t[i] \notin WS
                \/ i > 1 /\ t[i - 1] \notin WS}
        u == Restrict(t, K)
    IN  [k \in 1..Len(u) |-> IF u[k] \in WS THEN " " ELSE u[k]]

\* t with the whitespace at its two ends removed and every run of whitespace
\* in between replaced by one space
Collapsed(t) == CollapsedKeepingTail(Trimmed(t))

\* C7 as stated: shrink appends t with the leading whitespace removed and
\* every other run of whitespace, interior or trailing, replaced by one space.
C7_ShrinkKeepsTrailingSpace ==
    call.op = "shrink" =>
        res = "Ok" /\ o = call.o0 \o CollapsedKeepingTail(ArgText)

\* C7 amended: shrink appends t with the whitespace at both ends removed and
\* every interior run of whitespace replaced by one space; the other
\* characters are kept in order and unchanged.
C7_ShrinkTrimsAndCollapses ==
    call.op = "shrink" =>
        /\ res = "Ok"
        /\ o = call.o0 \o Collapsed(ArgText)
        /\ Restrict(o, NonWs(o)) = Restrict(call.o0 \o ArgText, NonWs(call.o0 \o ArgText))

\* C7 witness: a text with an interior run of a space and a carriage return
\* and a trailing line feed has been shrunk.
C7_Witness ==
    /\ call.op = "shrink"
    /\ ArgText = <<"a", " ", "\r", "a", "\n">>
    /\ o = call.o0 \o <<"a", " ", "a">>

\* t with each single quote replaced by the four characters '\''
RECURSIVE QuoteEscaped(_)
QuoteEscaped(t) ==
    IF t = << >> THEN << >>
    ELSE (IF Head(t) = "'" THEN <<"'", "\\", "'", "'">> ELSE <<Head(t)>>)
         \o QuoteEscaped(Tail(t))

\* the text a POSIX shell reads from the word w: inside single quotes every
\* character stands for itself up to the closing quote; outside, a backslash
\* makes the next character literal.  A quote left open is marked.
RECURSIVE ShellWord(_, _)
ShellWord(w, quoted) ==
    IF w = << >> THEN (IF quoted THEN <<"<open quote>">> ELSE << >>)
    ELSE IF quoted
    THEN (IF Head(w) = "'" THEN ShellWord(Tail(w), FALSE)
          ELSE <<Head(w)>> \o ShellWord(Tail(w), TRUE))
    ELSE IF Head(w) = "'" THEN ShellWord(Tail(w), TRUE)
    ELSE IF Head(w) = "\\" /\ Len(w) >= 2
    THEN <<w[2]>> \o ShellWord(SubSeq(w, 3, Len(w)), FALSE)
    ELSE <<Head(w)>> \o ShellWord(Tail(w), FALSE)

\* C8: shescape appends a single quote, t with each single quote replaced by
\* '\'' and every other character unchanged, and a single quote; read as a
\* shell word, what it appended denotes t.
C8_ShescapeQuotes ==
    call.op = "shescape" =>
        LET w == SubSeq(o, Len(call.o0) + 1, Len(o))
        IN  /\ res = "Ok"
            /\ o = call.o0 \o <<"'">> \o QuoteEscaped(ArgText) \o <<"'">>
            /\ ShellWord(w, FALSE) = ArgText

\* C8 witness: a text holding a single quote and a backslash has been quoted.
C8_Witness ==
    /\ call.op = "shescape"
    /\ ArgText = <<"a", "'", "\\">>
    /\ o = call.o0 \o <<"'", "a", "'", "\\", "'", "'", "\\", "'">>

\* the name the specification gives the configuration-directory builtin
getconfdir == <<"g","e","t","c","o","n","f","d","i","r">>

\* C9: a freshly seeded registry resolves getconfdir to a builtin, which
\* appends the value of the environment variable when it is set to text, the
\* default path when it is unset, and fails appending nothing otherwise.
C9_GetconfdirIsSeeded ==
    /\ p = SeededParser =>
            /\ lookup(p, getconfdir).some
            /\ lookup(p, getconfdir).v.kind = "Internal"
    /\ call.op = "getconfidir" =>
            /\ call.env.kind = "Unicode" =>
                    res = "Ok" /\ o = call.o0 \o call.env.v
            /\ call.env.kind = "Unset" =>
                    res = "Ok" /\ o = call.o0 \o DefaultConfigDir
            /\ call.env.kind = "NotUnicode" =>
                    res = "Err" /\ o = call.o0

\* the line of offset k in buffer s, counting from 1
TrueLine(s, k) == 1 + Cardinality({i \in 1..k : s[i] = "\n"})

\* the offset at which the line holding offset k starts
LineStart(s, k) ==
    LET nl == {i \in 1..k : s[i] = "\n"}
    IN  IF nl = {} THEN 0 ELSE Max(nl)

\* the offset at which the line holding offset k ends
LineEnd(s, k) ==
    LET nl == {i \in (k + 1)..Len(s) : s[i] = "\n"}
    IN  IF nl = {} THEN Len(s) ELSE Min(nl) - 1

\* C10: for every user-defined macro the registry holds after a define, the
\* location in the line dump writes for it is the line of the body's offset
\* and its distance from the start of that line, which never exceeds the
\* length of the line.
C10_DumpLocation ==
    (call.op \in {"define", "global"} /\ res = "Ok") =>
        \A n \in DOMAIN p.macros :
            (lookup(p, n).some /\ lookup(p, n).v.kind = "Runtime") =>
                LET m == lookup(p, n).v
                    l == dump_line(n, m)
                IN  l.some =>
                        /\ l.v.nline = TrueLine(m.s, m.offset)
                        /\ l.v.col = m.offset - LineStart(m.s, m.offset)
                        /\ l.v.col <= LineEnd(m.s, m.offset)
                                        - LineStart(m.s, m.offset)

\* what dump has written when it returns: lines of entries of the registry,
\* as dump_line and dump_internal give them; all of them when it succeeded,
\* and when it was refused a write, as many as standard output took
DumpWritesEntries ==
    call.op = "dump" =>
        LET names == {n \in DOMAIN call.p0.macros : lookup(call.p0, n).some}
            line(n) == IF lookup(call.p0, n).v.kind = "Internal"
                       THEN Some(dump_internal(n))
                       ELSE dump_line(n, lookup(call.p0, n).v)
        IN  /\ \A l \in stdout : l.name \in names /\ line(l.name) = Some(l)
            /\ res = "Ok" => Cardinality(stdout) = Cardinality(names)
            /\ res = "Err" => /\ Cardinality(stdout) = call.env.v.takes
                              /\ Cardinality(stdout) < Cardinality(names)
            /\ res = "Panic" => \E n \in names : ~line(n).some

====
